---- MODULE Spec2Model ----
(***************************************************************************)
(* Model of aoc_utils/src/search.rs: bfs, dfs, dijkstra, reconstruct_path. *)
(*                                                                         *)
(* A search is one call.  Its local variables are the model's variables,   *)
(* the caller's neighbor closure is the variable `neighbors` (a tuple that *)
(* maps each node to the list the closure returns for it), and every step  *)
(* of a loop is one action: one action per `while let` iteration head and  *)
(* one per item of the inner `for`.                                        *)
(*                                                                         *)
(* Distances are sums of at most NumWNodes costs or counts of at most      *)
(* NumNodes edges, far inside i64 and usize: arithmetic is unbounded here. *)
(***************************************************************************)
EXTENDS Integers, Sequences, FiniteSets, TLC

\* ---------------------------------------------------------------- bounds
\* Nodes of an unweighted graph (bfs, dfs) are 1..NumNodes.
NumNodes == 4
\* Total number of edges (summed lengths of the neighbor lists) of an
\* unweighted graph.
MaxEdges == 4
\* Nodes of a weighted graph (dijkstra) are 1..NumWNodes.
NumWNodes == 3
\* Total number of edges of a weighted graph.
MaxWEdges == 3
\* Edge costs of a weighted graph are 0..MaxCost (non-negative).
MaxCost == 1
\* The history variable `calls` counts the invocations of the closure per
\* node up to MaxCalls ("MaxCalls or more").
MaxCalls == 2

VARIABLES
    op,         \* the function being executed
    pc,         \* position in it: "while", "for", "done"
    neighbors,  \* the caller's closure: neighbors[n] is the list returned for n
    start,      \* argument `start`
    dist,       \* bfs/dijkstra: HashMap dist
    prev,       \* dijkstra: HashMap prev; reconstruct_path: argument prev
    q,          \* bfs: VecDeque q
    stack,      \* dfs: Vec stack
    visited,    \* dfs: HashSet visited
    order,      \* dfs: Vec order
    pq,         \* dijkstra: PriorityQueue pq, as a set of <<item, cost>>
    cur,        \* bfs/dfs/reconstruct_path: cur
    u,          \* dijkstra: u
    d,          \* bfs/dijkstra: d
    it,         \* the items the running `for` has not yet taken
    end,        \* reconstruct_path: argument `end`
    path,       \* reconstruct_path: Vec path
    calls,      \* history: calls[n] = number of invocations neighbors(n),
                \* counted up to MaxCalls
    firstBy     \* history of dijkstra: firstBy[<<v, nd>>] = the node u whose
                \* expansion first computed the candidate nd for v

vars == <<op, pc, neighbors, start, dist, prev, q, stack, visited, order,
          pq, cur, u, d, it, end, path, calls, firstBy>>

\* ------------------------------------------------------------- hash maps
\* HashMap::new()
EmptyMap == [x \in {} |-> 0]

\* HashMap::insert(k, v): adds the key or overwrites its value.
MapInsert(m, k, v) ==
    [x \in (DOMAIN m) \cup {k} |-> IF x = k THEN v ELSE m[x]]

\* HashMap::contains_key
ContainsKey(m, k) == k \in DOMAIN m

\* ------------------------------------------------------------ the inputs
\* SumTo(f, n) = f[1] + ... + f[n].
RECURSIVE SumTo(_, _)
SumTo(f, n) == IF n = 0 THEN 0 ELSE f[n] + SumTo(f, n - 1)

\* The ways to give each of n nodes a number of listed neighbors, at most e
\* in total.
Degrees(n, e) == { deg \in [1..n -> 0..e] : SumTo(deg, n) <= e }

\* The closure that lists, for node i, the deg[i] items of `items` that
\* follow those of the nodes before it: `|n| match n { 1 => vec![..], .. }`.
Closure(items, deg, n) ==
    [i \in 1..n |-> SubSeq(items, SumTo(deg, i - 1) + 1, SumTo(deg, i))]

Nodes == 1..NumNodes
WNodes == 1..NumWNodes
Costs == 0..MaxCost

\* The node a search starts from.  Node values are opaque to the library
\* (T: Eq + Hash + Copy) and the graphs drawn below are closed under
\* renaming the nodes, so every search is the renaming of one from node 1.
StartNode == 1

\* ------------------------------------------------------------------- bfs
\* bfs, lines 12-16: dist = {start: 0}, q = [start].
InitBfs ==
    /\ op = "bfs" /\ pc = "while"
    /\ \E deg \in Degrees(NumNodes, MaxEdges) :
         \E items \in [1..SumTo(deg, NumNodes) -> Nodes] :
            neighbors = Closure(items, deg, NumNodes)
    /\ start = StartNode
    /\ dist = MapInsert(EmptyMap, start, 0)
    /\ prev = EmptyMap
    /\ q = <<start>>
    /\ stack = <<>> /\ visited = {} /\ order = <<>> /\ pq = {}
    /\ cur = 0 /\ u = 0 /\ d = 0 /\ it = <<>> /\ end = 0 /\ path = <<>>
    /\ calls = [n \in Nodes |-> 0]
    /\ firstBy = EmptyMap

\* The history of closure invocations after neighbors(n) is called.
Called(n) == [calls EXCEPT ![n] = IF @ < MaxCalls THEN @ + 1 ELSE @]

\* Where control goes once the `for` has `rest` left to take.
AfterItem(rest) == IF rest = <<>> THEN "while" ELSE "for"

\* VecDeque::pop_front on a non-empty deque: <<the element, the rest>>.
PopFront(v) == <<Head(v), Tail(v)>>

\* bfs, lines 18-20: q.pop_front() gives cur; d = dist[cur]; neighbors(cur)
\* is called and the `for` starts on its result.
BfsPop ==
    /\ op = "bfs" /\ pc = "while" /\ q # <<>>
    /\ LET n == PopFront(q)[1] IN
        /\ cur' = n
        /\ q' = PopFront(q)[2]
        /\ d' = dist[n]
        /\ it' = neighbors[n]
        /\ calls' = Called(n)
        /\ pc' = AfterItem(neighbors[n])
    /\ UNCHANGED <<op, neighbors, start, dist, prev, stack, visited, order,
                   pq, u, end, path>>
    /\ UNCHANGED firstBy

\* Mutant of BfsIsNew: the guard left out, every listed neighbor is
\* recorded and queued.
BfsNoGuard(nb) == TRUE

\* bfs, line 21: the guard of the `for` body.
BfsIsNew(nb) == ~ContainsKey(dist, nb)

\* bfs, lines 20-25: one item nb of the `for`.
BfsVisit ==
    /\ op = "bfs" /\ pc = "for" /\ it # <<>>
    /\ LET nb == Head(it) IN
        IF BfsIsNew(nb)
        THEN /\ dist' = MapInsert(dist, nb, d + 1)
             /\ q' = Append(q, nb)
        ELSE UNCHANGED <<dist, q>>
    /\ it' = Tail(it)
    /\ pc' = AfterItem(Tail(it))
    /\ UNCHANGED <<op, neighbors, start, prev, stack, visited, order, pq,
                   cur, u, d, end, path, calls>>
    /\ UNCHANGED firstBy

\* bfs, lines 18 and 28: q.pop_front() is None, the loop ends, dist is returned.
BfsReturn ==
    /\ op = "bfs" /\ pc = "while" /\ q = <<>>
    /\ pc' = "done"
    /\ UNCHANGED <<op, neighbors, start, dist, prev, q, stack, visited, order,
                   pq, cur, u, d, it, end, path, calls>>
    /\ UNCHANGED firstBy

NextBfs == BfsPop \/ BfsVisit \/ BfsReturn

SpecBfs == InitBfs /\ [][NextBfs]_vars

\* ------------------------------------------------------------------- dfs
\* dfs, lines 38-40: visited = {}, stack = [start], order = [].
InitDfs ==
    /\ op = "dfs" /\ pc = "while"
    /\ \E deg \in Degrees(NumNodes, MaxEdges) :
         \E items \in [1..SumTo(deg, NumNodes) -> Nodes] :
            neighbors = Closure(items, deg, NumNodes)
    /\ start = StartNode
    /\ dist = EmptyMap /\ prev = EmptyMap
    /\ q = <<>>
    /\ stack = <<start>> /\ visited = {} /\ order = <<>>
    /\ pq = {}
    /\ cur = 0 /\ u = 0 /\ d = 0 /\ it = <<>> /\ end = 0 /\ path = <<>>
    /\ calls = [n \in Nodes |-> 0]
    /\ firstBy = EmptyMap

\* Mutant of VecPop: the stack served first-in first-out.
VecPopFirst(v) == <<Head(v), Tail(v)>>

\* Vec::pop on a non-empty vector: <<the last element, the rest>>.
VecPop(v) == <<v[Len(v)], SubSeq(v, 1, Len(v) - 1)>>

\* Mutant of AlreadyVisited: a popped node is never skipped.
NeverSkipped(n) == FALSE

\* dfs, line 43: visited.insert(n) returns false, n was visited before.
AlreadyVisited(n) == n \in visited

\* dfs, lines 42-47: stack.pop() gives cur; visited.insert(cur) is false for
\* a node already visited and the iteration ends (continue); otherwise cur is
\* appended to order, neighbors(cur) is called and the `for` starts.
DfsPop ==
    /\ op = "dfs" /\ pc = "while" /\ stack # <<>>
    /\ LET n == VecPop(stack)[1] IN
        /\ cur' = n
        /\ stack' = VecPop(stack)[2]
        /\ IF AlreadyVisited(n)
           THEN /\ pc' = "while"
                /\ UNCHANGED <<visited, order, it, calls>>
           ELSE /\ visited' = visited \cup {n}
                /\ order' = Append(order, n)
                /\ it' = neighbors[n]
                /\ calls' = Called(n)
                /\ pc' = AfterItem(neighbors[n])
    /\ UNCHANGED <<op, neighbors, start, dist, prev, q, pq, u, d, end, path>>
    /\ UNCHANGED firstBy

\* Mutant of DfsPushes: every listed neighbor is pushed, visited or not.
DfsPushesAll(nb) == TRUE

\* dfs, line 48: the guard of the `for` body.
DfsPushes(nb) == nb \notin visited

\* dfs, lines 47-51: one item nb of the `for`.
DfsPush ==
    /\ op = "dfs" /\ pc = "for" /\ it # <<>>
    /\ LET nb == Head(it) IN
        IF DfsPushes(nb)
        THEN stack' = Append(stack, nb)
        ELSE UNCHANGED stack
    /\ it' = Tail(it)
    /\ pc' = AfterItem(Tail(it))
    /\ UNCHANGED <<op, neighbors, start, dist, prev, q, visited, order, pq,
                   cur, u, d, end, path, calls>>
    /\ UNCHANGED firstBy

\* dfs, lines 42 and 54: stack.pop() is None, the loop ends, order is returned.
DfsReturn ==
    /\ op = "dfs" /\ pc = "while" /\ stack = <<>>
    /\ pc' = "done"
    /\ UNCHANGED <<op, neighbors, start, dist, prev, q, stack, visited, order,
                   pq, cur, u, d, it, end, path, calls>>
    /\ UNCHANGED firstBy

NextDfs == DfsPop \/ DfsPush \/ DfsReturn

SpecDfs == InitDfs /\ [][NextDfs]_vars

\* -------------------------------------------------------------- dijkstra
\* An edge as the closure lists it: (neighbor, cost).
WEdges == WNodes \X Costs

\* priority_queue::PriorityQueue<T, Reverse<i64>>, as the set of its
\* <<item, cost>> entries.

\* Mutant of PqPush: an insert-only heap (BinaryHeap::push), which keeps the
\* entries an item already has.
PqPushInsertOnly(entries, item, cost) == entries \cup { <<item, cost>> }

\* PriorityQueue::push(item, Reverse(cost)): an item is queued at most once;
\* for an item already queued, push replaces its priority by the new one.
PqPush(entries, item, cost) ==
    { e \in entries : e[1] # item } \cup { <<item, cost>> }

\* PriorityQueue::pop takes an entry of greatest priority, which under
\* Reverse is one of least cost; which one among entries of equal cost is
\* left to the heap's layout.
PqMin(entries) == { e \in entries : \A f \in entries : e[2] <= f[2] }

\* dijkstra, lines 64-69: dist = {start: 0}, prev = {}, pq = {(start, 0)}.
InitDijkstra ==
    /\ op = "dijkstra" /\ pc = "while"
    /\ \E deg \in Degrees(NumWNodes, MaxWEdges) :
         \E items \in [1..SumTo(deg, NumWNodes) -> WEdges] :
            neighbors = Closure(items, deg, NumWNodes)
    /\ start = StartNode
    /\ dist = MapInsert(EmptyMap, start, 0)
    /\ prev = EmptyMap
    /\ q = <<>> /\ stack = <<>> /\ visited = {} /\ order = <<>>
    /\ pq = PqPush({}, start, 0)
    /\ cur = 0 /\ u = 0 /\ d = 0 /\ it = <<>> /\ end = 0 /\ path = <<>>
    /\ calls = [n \in WNodes |-> 0]
    /\ firstBy = EmptyMap

\* dijkstra, line 72: the popped entry (node, cost) is outdated.
Outdated(node, cost) == cost > dist[node]

\* dijkstra, lines 71-76: pq.pop() gives (u, d); an outdated entry ends the
\* iteration (continue); otherwise neighbors(u) is called and the `for`
\* starts on its result.
DijkstraPop ==
    /\ op = "dijkstra" /\ pc = "while" /\ pq # {}
    /\ \E e \in PqMin(pq) :
        /\ pq' = pq \ {e}
        /\ u' = e[1]
        /\ d' = e[2]
        /\ IF Outdated(e[1], e[2])
           THEN /\ pc' = "while"
                /\ UNCHANGED <<it, calls>>
           ELSE /\ it' = neighbors[e[1]]
                /\ calls' = Called(e[1])
                /\ pc' = AfterItem(neighbors[e[1]])
    /\ UNCHANGED <<op, neighbors, start, dist, prev, q, stack, visited, order,
                   cur, end, path>>
    /\ UNCHANGED firstBy

\* Mutant of Improves: `nd <= old` for `nd < old`.
ImprovesOrTies(v, nd) == ~ContainsKey(dist, v) \/ nd <= dist[v]

\* Mutant of Improves: a recorded distance is never overwritten.
ImprovesOnlyNew(v, nd) == ~ContainsKey(dist, v)

\* dijkstra, line 78: dist.get(&v).map_or(true, |&old| nd < old).
Improves(v, nd) == ~ContainsKey(dist, v) \/ nd < dist[v]

\* Mutant of RelaxPrev: prev.entry(v).or_insert(u), the first predecessor
\* is kept when the distance is overwritten.
RelaxPrevKeepFirst(v) == IF ContainsKey(prev, v) THEN prev ELSE MapInsert(prev, v, u)

\* dijkstra, line 80: prev.insert(v, u).
RelaxPrev(v) == MapInsert(prev, v, u)

\* The history after the expansion of u has computed the candidate nd for
\* v (line 77): the first node to compute a candidate is kept.
Proposed(v, nd) ==
    IF ContainsKey(firstBy, <<v, nd>>) THEN firstBy
    ELSE MapInsert(firstBy, <<v, nd>>, u)

\* dijkstra, lines 76-83: one item (v, w) of the `for`.
DijkstraRelax ==
    /\ op = "dijkstra" /\ pc = "for" /\ it # <<>>
    /\ LET v == Head(it)[1]
           w == Head(it)[2]
           nd == d + w
       IN  IF Improves(v, nd)
           THEN /\ dist' = MapInsert(dist, v, nd)
                /\ prev' = RelaxPrev(v)
                /\ pq' = PqPush(pq, v, nd)
           ELSE UNCHANGED <<dist, prev, pq>>
    /\ firstBy' = Proposed(Head(it)[1], d + Head(it)[2])
    /\ it' = Tail(it)
    /\ pc' = AfterItem(Tail(it))
    /\ UNCHANGED <<op, neighbors, start, q, stack, visited, order, cur, u, d,
                   end, path, calls>>

\* dijkstra, lines 71 and 86: pq.pop() is None, the loop ends, (dist, prev)
\* is returned.
DijkstraReturn ==
    /\ op = "dijkstra" /\ pc = "while" /\ pq = {}
    /\ pc' = "done"
    /\ UNCHANGED <<op, neighbors, start, dist, prev, q, stack, visited, order,
                   pq, cur, u, d, it, end, path, calls>>
    /\ UNCHANGED firstBy

NextDijkstra == DijkstraPop \/ DijkstraRelax \/ DijkstraReturn

SpecDijkstra == InitDijkstra /\ [][NextDijkstra]_vars

\* ------------------------------------------------------ reconstruct_path
\* The node reached from t by following m for at most n entries, or 0 when
\* the chain has not ended by then.
RECURSIVE ChainRoot(_, _, _)
ChainRoot(m, t, n) ==
    IF ~ContainsKey(m, t) THEN t
    ELSE IF n = 0 THEN 0
    ELSE ChainRoot(m, m[t], n - 1)

\* Every HashMap<T, T> over the nodes: any set of keys, any values.
PrevMaps == UNION { [keys -> WNodes] : keys \in SUBSET WNodes }

\* reconstruct_path, lines 94-96, called on a map the caller built by hand
\* (tests, lines 303-320) whose chain from `end` has an end: path = [end],
\* cur = end.
InitPath ==
    /\ op = "reconstruct_path" /\ pc = "while"
    /\ neighbors = <<>> /\ start = 0
    /\ dist = EmptyMap
    /\ prev \in PrevMaps
    /\ end \in WNodes
    /\ ChainRoot(prev, end, NumWNodes) # 0
    /\ q = <<>> /\ stack = <<>> /\ visited = {} /\ order = <<>> /\ pq = {}
    /\ cur = end /\ u = 0 /\ d = 0 /\ it = <<>>
    /\ path = <<end>>
    /\ calls = <<>>
    /\ firstBy = EmptyMap

\* reconstruct_path, lines 94-96, called on the prev that dijkstra returned
\* (tests, lines 246-257 and 278-287).
PathCall ==
    /\ op = "dijkstra" /\ pc = "done"
    /\ \E t \in WNodes :
        /\ end' = t
        /\ cur' = t
        /\ path' = <<t>>
    /\ op' = "reconstruct_path"
    /\ pc' = "while"
    /\ UNCHANGED <<neighbors, start, dist, prev, q, stack, visited, order, pq,
                   u, d, it, calls>>
    /\ UNCHANGED firstBy

\* reconstruct_path, lines 98-101: one iteration of the `while let`.
PathStep ==
    /\ op = "reconstruct_path" /\ pc = "while"
    /\ ContainsKey(prev, cur)
    /\ cur' = prev[cur]
    /\ path' = Append(path, prev[cur])
    /\ UNCHANGED <<op, pc, neighbors, start, dist, prev, q, stack, visited,
                   order, pq, u, d, it, end, calls>>
    /\ UNCHANGED firstBy

\* Vec::reverse
RECURSIVE VecReverse(_)
VecReverse(v) ==
    IF v = <<>> THEN <<>> ELSE Append(VecReverse(Tail(v)), Head(v))

\* Mutant of PathResult: path.reverse() left out.
PathNotReversed(v) == v

\* What reconstruct_path returns from the collected path, lines 103-104.
PathResult(v) == VecReverse(v)

\* reconstruct_path, lines 98 and 103-104: prev has no entry for cur, the
\* loop ends, the path is reversed and returned.
PathReturn ==
    /\ op = "reconstruct_path" /\ pc = "while"
    /\ ~ContainsKey(prev, cur)
    /\ path' = PathResult(path)
    /\ pc' = "done"
    /\ UNCHANGED <<op, neighbors, start, dist, prev, q, stack, visited, order,
                   pq, cur, u, d, it, end, calls>>
    /\ UNCHANGED firstBy

NextPath == PathCall \/ PathStep \/ PathReturn

\* reconstruct_path on hand-built maps and on the maps dijkstra returns.
InitPaths == InitPath \/ InitDijkstra

NextPaths == NextDijkstra \/ NextPath

SpecPath == InitPaths /\ [][NextPaths]_vars

\* ---------------------------------------------------------- the searches
\* One call of bfs, dfs or dijkstra.
InitSearch == InitBfs \/ InitDfs \/ InitDijkstra

NextSearch == NextBfs \/ NextDfs \/ NextDijkstra

SpecSearch == InitSearch /\ [][NextSearch]_vars

\* ------------------------------------------------------------ the library
Init == InitBfs \/ InitDfs \/ InitDijkstra \/ InitPath

Next == NextBfs \/ NextDfs \/ NextDijkstra \/ NextPath

Done == pc = "done"

Spec == Init /\ [][Next]_vars

\* Every call runs to completion on its own (section 5: synchronous,
\* non-suspending): a step that can be taken is taken.
FairSpec == Spec /\ WF_vars(Next)

\* ============================================================ the claims
\* The graph behind a closure, as a set of edges <<from, to, cost>>; an
\* edge of an unweighted graph costs 1.
UnitEdges(g) ==
    UNION { { <<a, g[a][i], 1>> : i \in DOMAIN g[a] } : a \in DOMAIN g }

CostEdges(g) ==
    UNION { { <<a, g[a][i][1], g[a][i][2]>> : i \in DOMAIN g[a] } : a \in DOMAIN g }

SetMin(S) == CHOOSE x \in S : \A y \in S : x <= y

\* From f, which maps each node that some walk of at most k edges reaches
\* to the least cost of such a walk, the same for k + 1 edges.
OneMoreEdge(E, f) ==
    LET into(v) == { e \in E : e[2] = v /\ e[1] \in DOMAIN f }
        reached == DOMAIN f \cup { e[2] : e \in { x \in E : x[1] \in DOMAIN f } }
    IN  [v \in reached |->
            SetMin((IF v \in DOMAIN f THEN {f[v]} ELSE {})
                   \cup { f[e[1]] + e[3] : e \in into(v) })]

RECURSIVE WalksUpTo(_, _, _)
WalksUpTo(E, s, k) ==
    IF k = 0 THEN [x \in {s} |-> 0] ELSE OneMoreEdge(E, WalksUpTo(E, s, k - 1))

\* The nodes reachable from s in a graph of n nodes, each mapped to the
\* least cost of a path from s: with costs >= 0 a cheapest path repeats no
\* node, so it has fewer than n edges.
Cheapest(E, s, n) == WalksUpTo(E, s, n)

\* C1: when bfs returns, the keys of dist are exactly the nodes reachable
\* from start, dist[start] = 0 and dist[v] is the least number of edges of a
\* path from start to v; a start without neighbors gives exactly {start: 0}.
BfsShortest ==
    (op = "bfs" /\ pc = "done") =>
        /\ dist = Cheapest(UnitEdges(neighbors), start, NumNodes)
        /\ dist[start] = 0
        /\ neighbors[start] = <<>> => dist = MapInsert(EmptyMap, start, 0)

\* A returned bfs map with a node two edges away that lists start again (a
\* cycle), and a node that is not reachable.
BfsShortestWitness ==
    /\ op = "bfs" /\ pc = "done"
    /\ \E v \in DOMAIN dist :
        /\ dist[v] = 2
        /\ <<v, start, 1>> \in UnitEdges(neighbors)
    /\ DOMAIN dist # Nodes

\* C2: when dijkstra returns (costs >= 0), the keys of dist are exactly the
\* nodes reachable from start, dist[start] = 0 and dist[v] is the least
\* summed cost of a path from start to v.
DijkstraShortest ==
    (op = "dijkstra" /\ pc = "done") =>
        /\ dist = Cheapest(CostEdges(neighbors), start, NumWNodes)
        /\ dist[start] = 0

\* Node v was first recorded at a cost above its final one: start, expanded
\* first, lists v, and only at costs above dist[v].
FoundCostlierFirst(v) ==
    /\ v # start
    /\ v \in DOMAIN dist
    /\ \E i \in DOMAIN neighbors[start] : neighbors[start][i][1] = v
    /\ \A i \in DOMAIN neighbors[start] :
          neighbors[start][i][1] = v => neighbors[start][i][2] > dist[v]

\* A returned dijkstra map with a node whose costlier path was found first.
DijkstraShortestWitness ==
    /\ op = "dijkstra" /\ pc = "done"
    /\ \E v \in WNodes : FoundCostlierFirst(v)

\* The sums of edge costs of the paths that follow m from its chain's root
\* to v (one sum per choice among parallel edges); empty when a hop is not
\* an edge of g or the chain has not ended after n hops.
RECURSIVE ChainCosts(_, _, _, _)
ChainCosts(m, E, v, n) ==
    IF ~ContainsKey(m, v) THEN {0}
    ELSE IF n = 0 THEN {}
    ELSE { c + e[3] : c \in ChainCosts(m, E, m[v], n - 1),
                      e \in { x \in E : x[1] = m[v] /\ x[2] = v } }

\* C3: when dijkstra returns (costs >= 0), prev has an entry for exactly the
\* reached nodes other than start, every entry prev[v] = p is an edge p -> v
\* of some cost w with dist[v] = dist[p] + w, and following prev from a
\* reached v ends at start along a path whose costs sum to dist[v].
PrevIsShortestPathTree ==
    (op = "dijkstra" /\ pc = "done") =>
        /\ DOMAIN prev = DOMAIN dist \ {start}
        /\ neighbors[start] = <<>> => prev = EmptyMap
        /\ \A v \in DOMAIN prev :
              \E e \in CostEdges(neighbors) :
                  e[1] = prev[v] /\ e[2] = v /\ dist[v] = dist[prev[v]] + e[3]
        /\ \A v \in DOMAIN dist :
              /\ ChainRoot(prev, v, NumWNodes) = start
              /\ dist[v] \in ChainCosts(prev, CostEdges(neighbors), v, NumWNodes)

\* A returned prev where a node's entry was overwritten and its path has
\* two edges.
PrevIsShortestPathTreeWitness ==
    /\ op = "dijkstra" /\ pc = "done"
    /\ \E v \in DOMAIN prev :
        /\ FoundCostlierFirst(v)
        /\ prev[v] # start
        /\ prev[prev[v]] = start

\* The elements of a sequence.
Range(v) == { v[i] : i \in DOMAIN v }

\* C4: when dfs returns, order holds every node reachable from start exactly
\* once and no other node, and starts with start; a start without neighbors
\* gives [start].
DfsCoversReachable ==
    (op = "dfs" /\ pc = "done") =>
        /\ Range(order) = DOMAIN Cheapest(UnitEdges(neighbors), start, NumNodes)
        /\ Cardinality(Range(order)) = Len(order)
        /\ order[1] = start
        /\ neighbors[start] = <<>> => order = <<start>>

\* A returned order of a graph in which a node is listed twice by the same
\* node, a node is reached along two paths and a node is not reachable.
DfsCoversReachableWitness ==
    /\ op = "dfs" /\ pc = "done"
    /\ Len(order) = 3
    /\ \E a \in Nodes : Len(neighbors[a]) = 2 /\ neighbors[a][1] = neighbors[a][2]
    /\ \E v \in Nodes \ {start} :
          Cardinality({ e \in UnitEdges(neighbors) : e[2] = v /\ e[1] # v }) = 2

\* The reference traversal: pop the last-pushed node, skip it if visited,
\* otherwise append it to the order and push all of its neighbors in the
\* order the closure lists them.
RECURSIVE RefDfs(_, _, _, _)
RefDfs(g, stk, seen, ord) ==
    IF stk = <<>> THEN ord
    ELSE LET n == stk[Len(stk)]
             rest == SubSeq(stk, 1, Len(stk) - 1)
         IN  IF n \in seen THEN RefDfs(g, rest, seen, ord)
             ELSE RefDfs(g, rest \o g[n], seen \cup {n}, Append(ord, n))

\* The graph of tests::dfs_order_with_deterministic_neighbors, with
\* A, B, C, D = 1, 2, 3, 4.
IsDiamond ==
    /\ start = 1
    /\ neighbors[1] = <<2, 3>> /\ neighbors[2] = <<4>>
    /\ neighbors[3] = <<4>> /\ neighbors[4] = <<>>

\* C5: dfs returns the order of the reference traversal, so the branch of
\* the last-listed neighbor comes first: A -> [B, C], B -> [D], C -> [D]
\* from A gives [A, C, D, B].
DfsMatchesReference ==
    (op = "dfs" /\ pc = "done") =>
        /\ order = RefDfs(neighbors, <<start>>, {}, <<>>)
        /\ IsDiamond => order = <<1, 3, 4, 2>>

\* dfs has returned on the diamond, where the reference pushes D a second
\* time (from B) and dfs does not.
DfsMatchesReferenceWitness ==
    /\ op = "dfs" /\ pc = "done"
    /\ IsDiamond
    /\ Len(order) = 4

\* C6: reconstruct_path returns a sequence that ends with `end`, starts with
\* a node that has no entry in prev, and whose consecutive pairs (a, b)
\* satisfy prev[b] = a; an `end` without entry gives [end], and on the prev
\* of dijkstra with a reached `end` the sequence starts with the search's
\* start.
PathFollowsPrev ==
    (op = "reconstruct_path" /\ pc = "done") =>
        /\ path # <<>>
        /\ path[Len(path)] = end
        /\ ~ContainsKey(prev, path[1])
        /\ \A i \in 1..(Len(path) - 1) :
              ContainsKey(prev, path[i + 1]) /\ prev[path[i + 1]] = path[i]
        /\ ~ContainsKey(prev, end) => path = <<end>>
        /\ ContainsKey(dist, end) => path[1] = start

\* reconstruct_path has returned a path of two edges from the prev of a
\* dijkstra call.
PathFollowsPrevWitness ==
    /\ op = "reconstruct_path" /\ pc = "done"
    /\ ContainsKey(dist, end)
    /\ Len(path) = 3

\* C7: every call returns: bfs, dfs, dijkstra (costs >= 0) on a finite
\* graph, and reconstruct_path on a prev whose chain from `end` has an end.
Terminates == <>[]Done

\* dijkstra has returned on a graph with a cycle of cost 0 through start.
TerminatesWitness ==
    /\ op = "dijkstra" /\ pc = "done"
    /\ \E v \in WNodes \ {start} :
        /\ <<start, v, 0>> \in CostEdges(neighbors)
        /\ <<v, start, 0>> \in CostEdges(neighbors)

\* The nodes dijkstra has dequeued and expanded.
Expanded == { n \in DOMAIN calls : calls[n] > 0 }

\* The entry of map m for key k, or <<>> when it has none.
Entry(m, k) == IF ContainsKey(m, k) THEN <<m[k]>> ELSE <<>>

\* C8: in dijkstra (costs >= 0) no step changes the recorded distance or
\* predecessor of a node that has been dequeued and expanded, and a step
\* that changes a recorded distance makes it strictly smaller.
ExpandedIsFinal ==
    [][op = "dijkstra" =>
        /\ \A v \in Expanded :
              /\ Entry(dist', v) = Entry(dist, v)
              /\ Entry(prev', v) = Entry(prev, v)
        /\ \A v \in DOMAIN dist :
              /\ ContainsKey(dist', v)
              /\ dist'[v] # dist[v] => dist'[v] < dist[v]]_vars

\* The `for` of a later expansion is about to take an edge to a node
\* expanded before, at a cost equal to the node's recorded distance.
ExpandedIsFinalWitness ==
    /\ op = "dijkstra" /\ pc = "for"
    /\ Head(it)[1] \in Expanded \ {u}
    /\ d + Head(it)[2] = dist[Head(it)[1]]

\* C9 speaks of popped entries with d > dist[u]; there are none: the entry
\* dijkstra has popped last carries the recorded distance of its node.
PoppedEntryIsCurrent ==
    (op = "dijkstra" /\ u # 0) => d = dist[u]

TiesKeepFirstPredecessor ==
    /\ [][op = "dijkstra" =>
            /\ \A v \in WNodes :
                  Entry(prev', v) # Entry(prev, v) =>
                      /\ ContainsKey(dist', v)
                      /\ ContainsKey(dist, v) => dist'[v] < dist[v]
            /\ (pc = "for" /\ ContainsKey(dist, Head(it)[1])
                           /\ d + Head(it)[2] = dist[Head(it)[1]]) =>
                  (dist' = dist /\ prev' = prev /\ pq' = pq)]_vars
    /\ []((op = "dijkstra" /\ pc = "done") =>
            \A v \in DOMAIN prev : prev[v] = firstBy[<<v, dist[v]>>])

\* dijkstra has returned, and two different nodes reach v at its final cost.
TiesKeepFirstPredecessorWitness ==
    /\ op = "dijkstra" /\ pc = "done"
    /\ \E v \in DOMAIN prev :
          \E e \in CostEdges(neighbors) :
              /\ e[2] = v /\ e[1] # prev[v] /\ e[1] # v
              /\ ContainsKey(dist, e[1])
              /\ dist[e[1]] + e[3] = dist[v]

\* C12 as stated: when dfs expands a node, every listed neighbor is pushed
\* onto the stack, visited or not.
DfsPushesEveryNeighbor ==
    [][(op = "dfs" /\ pc = "for") => stack' = Append(stack, Head(it))]_vars

\* C12 (amended): when dfs expands a node, a listed neighbor is pushed
\* exactly when it is not visited at that moment, also when it is on the
\* stack already; a visited neighbor is left out at push time.  Copies of a
\* node pushed before its visit are dropped at pop time: popping a visited
\* node changes neither visited nor order and calls no closure.
DfsPushesUnvisitedNeighbors ==
    [][op = "dfs" =>
        /\ pc = "for" =>
              stack' = IF Head(it) \in visited THEN stack
                       ELSE Append(stack, Head(it))
        /\ (pc = "while" /\ stack # <<>> /\ stack[Len(stack)] \in visited) =>
              /\ stack' = SubSeq(stack, 1, Len(stack) - 1)
              /\ visited' = visited /\ order' = order /\ calls' = calls
              /\ pc' = "while"]_vars

\* The `for` is about to take a neighbor that is visited, while the stack
\* still holds a copy of a visited node.
DfsPushesUnvisitedNeighborsWitness ==
    /\ op = "dfs" /\ pc = "for"
    /\ Head(it) \in visited
    /\ \E i \in DOMAIN stack : stack[i] \in visited

\* The nodes that the closure of the running search lists for n.
Listed(n) ==
    IF op = "dijkstra" THEN { neighbors[n][i][1] : i \in DOMAIN neighbors[n] }
    ELSE { neighbors[n][i] : i \in DOMAIN neighbors[n] }

\* The nodes reachable from those of S along at most k edges.
RECURSIVE Within(_, _)
Within(S, k) ==
    IF k = 0 THEN S ELSE Within(S \cup UNION { Listed(n) : n \in S }, k - 1)

\* The nodes reachable from start in the graph of the running search.
Reachable == Within({start}, Len(neighbors))

\* C13: in one call of bfs, dfs or dijkstra (costs >= 0) the closure is
\* never invoked a second time for a node, so not for a popped entry that
\* is skipped either; when the call returns it has been invoked exactly
\* once for each reachable node and for no other node.
NeighborsCalledOncePerNode ==
    op \in {"bfs", "dfs", "dijkstra"} =>
        /\ \A n \in DOMAIN calls : calls[n] <= 1
        /\ pc = "done" => { n \in DOMAIN calls : calls[n] = 1 } = Reachable

\* dfs has returned on a graph in which a node lists the same neighbor
\* twice (its second copy is popped and skipped) and a node is unreachable.
NeighborsCalledOncePerNodeWitness ==
    /\ op = "dfs" /\ pc = "done"
    /\ \E a \in Reachable :
          /\ Len(neighbors[a]) = 2
          /\ neighbors[a][1] = neighbors[a][2]
          /\ neighbors[a][1] # a
    /\ Reachable # Nodes

====
